---------------------------- MODULE Spec2Model ----------------------------
(***************************************************************************)
(* A model of the MCP web tools: the URL safety validator (validate_url),  *)
(* the bounded parameter normalizer (validate_max_results), the search     *)
(* server's rate limiter and tool handlers, and the scraper's scrape_url   *)
(* handler.                                                                *)
(*                                                                         *)
(* Python strings are sequences of one-character strings, so that          *)
(* stripping, lower-casing, splitting and prefix tests are computed.       *)
(* Python values of other types are records tagged by their type in "t".   *)
(* Times (time.time() readings, rate_limit_seconds) are integers in one    *)
(* common unit.                                                            *)
(***************************************************************************)
EXTENDS Integers, Sequences, FiniteSets, TLC

VARIABLES
    config,             \* common.config.config: the fields the model reads
    strict_brackets,    \* whether the interpreter's urlsplit validates bracketed hosts
    url,                \* validate_url: the argument (a Python value)
    url_parts,          \* how the argument was put together (scheme, userinfo, host, ...)
    outcome,            \* validate_url: what the call returned, NoCall before it
    value,              \* validate_max_results: the value argument
    default,            \* validate_max_results: the default argument (None or an int)
    min_val,            \* validate_max_results: the min_val argument
    max_val,            \* validate_max_results: the max_val argument
    result,             \* validate_max_results: what the call did, NoCall before it
    clock,              \* search server: what time.time() reads now
    last_request_time,  \* search server: the global _last_request_time
    running,            \* search server: the invocation the event loop is running, 0 for none
    task,               \* search server: each tool invocation's position and locals
    calls,              \* search server: the invocations that called _check_rate_limit, in order
    scrape,             \* scraper server: one scrape_url invocation's position and locals
    validations         \* the calls of the two validators made so far, each with what it saw and left

vars == <<config, strict_brackets, url, url_parts, outcome,
          value, default, min_val, max_val, result,
          clock, last_request_time, running, task, calls, scrape, validations>>

urlVars == <<url, url_parts, outcome, strict_brackets>>
maxVars == <<value, default, min_val, max_val, result>>
searchVars == <<clock, last_request_time, running, task, calls>>
scrapeVars == <<scrape>>

-----------------------------------------------------------------------------
(* Bounds of the model *)

\* surrounding whitespace characters put before and after a URL
MaxWs == 2
\* length of the free-form strings over RawAlphabet handed to validate_url
MaxRawLen == 4
\* length of the free-form strings over NumAlphabet handed to validate_max_results
MaxNumLen == 3
\* tool invocations of the search server in one run
NumTasks == 3
\* the calls of validate_url and validate_max_results in one run of calls
MaxCalls == 3
\* the last clock reading of a run
MaxClock == 3
\* the largest configured rate_limit_seconds
MaxRate == 2

-----------------------------------------------------------------------------
(* Python values *)

None == [t |-> "none"]
PyStr(s) == [t |-> "str", s |-> s]
PyInt(n) == [t |-> "int", n |-> n]
PyList(k) == [t |-> "list", len |-> k]
PyDict(k) == [t |-> "dict", len |-> k]
PyBool(b) == [t |-> "bool", b |-> b]
\* a finite float holds twice its value, so that halves are floats of the model
PyFloat(twice) == [t |-> "float", kind |-> "finite", twice |-> twice]
PyInf == [t |-> "float", kind |-> "inf", twice |-> 0]
PyNegInf == [t |-> "float", kind |-> "-inf", twice |-> 0]
PyNaN == [t |-> "float", kind |-> "nan", twice |-> 0]
NoCall == [t |-> "nocall"]

\* Python truthiness, as `not url` reads it
Truthy(v) ==
    CASE v.t = "none" -> FALSE
      [] v.t = "str" -> Len(v.s) > 0
      [] v.t = "int" -> v.n # 0
      [] v.t \in {"list", "dict"} -> v.len > 0
      [] v.t = "bool" -> v.b
      [] v.t = "float" -> v.kind # "finite" \/ v.twice # 0
      [] OTHER -> TRUE

-----------------------------------------------------------------------------
(* Strings *)

UpperLetters == <<"A","B","C","D","E","F","G","H","I","J","K","L","M",
                  "N","O","P","Q","R","S","T","U","V","W","X","Y","Z">>
LowerLetters == <<"a","b","c","d","e","f","g","h","i","j","k","l","m",
                  "n","o","p","q","r","s","t","u","v","w","x","y","z">>
Digits == {"0","1","2","3","4","5","6","7","8","9"}
Whitespace == {" ", "\t", "\n", "\r"}

Range(s) == {s[i] : i \in DOMAIN s}

\* str.lower() on one character
LowerChar(c) ==
    IF \E i \in DOMAIN UpperLetters : UpperLetters[i] = c
    THEN LowerLetters[CHOOSE i \in DOMAIN UpperLetters : UpperLetters[i] = c]
    ELSE c

\* str.upper() on one character (used to build inputs in another letter case)
UpperChar(c) ==
    IF \E i \in DOMAIN LowerLetters : LowerLetters[i] = c
    THEN UpperLetters[CHOOSE i \in DOMAIN LowerLetters : LowerLetters[i] = c]
    ELSE c

Lower(s) == [i \in DOMAIN s |-> LowerChar(s[i])]
Upper(s) == [i \in DOMAIN s |-> UpperChar(s[i])]

\* str.strip(): the string without its leading and trailing whitespace
Strip(s) ==
    LET keep == {i \in DOMAIN s : s[i] \notin Whitespace}
    IN  IF keep = {} THEN <<>>
        ELSE SubSeq(s, CHOOSE i \in keep : \A j \in keep : i <= j,
                       CHOOSE i \in keep : \A j \in keep : i >= j)

\* str.find(c) + 1: the first position of c in s, 0 when there is none
Find(s, c) ==
    IF c \in Range(s) THEN CHOOSE i \in DOMAIN s : s[i] = c /\ \A j \in 1..(i-1) : s[j] # c
    ELSE 0

\* the last position of c in s, 0 when there is none
RFind(s, c) ==
    IF c \in Range(s) THEN CHOOSE i \in DOMAIN s : s[i] = c /\ \A j \in (i+1)..Len(s) : s[j] # c
    ELSE 0

\* str.startswith
StartsWith(s, p) == Len(p) <= Len(s) /\ SubSeq(s, 1, Len(p)) = p

\* str.split(c): the pieces of s between the occurrences of c
RECURSIVE Split(_, _)
Split(s, c) ==
    LET i == Find(s, c)
    IN  IF i = 0 THEN <<s>>
        ELSE <<SubSeq(s, 1, i-1)>> \o Split(SubSeq(s, i+1, Len(s)), c)

-----------------------------------------------------------------------------
(* Configuration (common/config.py) *)

\* Config.default_search_results, .max_search_results, .min_search_results as shipped
DefaultSearchResults == 5
MaxSearchResults == 20
MinSearchResults == 1
\* Config.rate_limit_seconds as shipped, in clock units
DefaultRateLimit == 1

\* Config.allowed_schemes
allowed_schemes == {<<"h","t","t","p">>, <<"h","t","t","p","s">>}

\* Config.blocked_hosts
blocked_hosts ==
    << <<"l","o","c","a","l","h","o","s","t">>,
       <<"1","2","7",".">>,
       <<"1","0",".">>,
       <<"1","9","2",".","1","6","8",".">>,
       <<"1","7","2",".","1","6",".">>,
       <<"1","7","2",".","1","7",".">>,
       <<"1","7","2",".","1","8",".">>,
       <<"1","7","2",".","1","9",".">>,
       <<"1","7","2",".","2","0",".">>,
       <<"1","7","2",".","2","1",".">>,
       <<"1","7","2",".","2","2",".">>,
       <<"1","7","2",".","2","3",".">>,
       <<"1","7","2",".","2","4",".">>,
       <<"1","7","2",".","2","5",".">>,
       <<"1","7","2",".","2","6",".">>,
       <<"1","7","2",".","2","7",".">>,
       <<"1","7","2",".","2","8",".">>,
       <<"1","7","2",".","2","9",".">>,
       <<"1","7","2",".","3","0",".">>,
       <<"1","7","2",".","3","1",".">>,
       <<"1","6","9",".","2","5","4",".">>,
       <<"[",":",":","1","]">>,
       <<"[","f","e","8","0",":">> >>

DefaultConfig ==
    [default_search_results |-> DefaultSearchResults,
     max_search_results |-> MaxSearchResults,
     min_search_results |-> MinSearchResults,
     rate_limit_seconds |-> DefaultRateLimit]

-----------------------------------------------------------------------------
(* urllib.parse.urlparse, as validate_url uses it: scheme and netloc *)

\* the characters urlsplit accepts in a scheme
SchemeChars == Range(UpperLetters) \cup Range(LowerLetters) \cup Digits \cup {"+", "-", "."}
HexDigits == Digits \cup {"a","b","c","d","e","f","A","B","C","D","E","F"}

\* ipaddress.IPv6Address accepts the text between the brackets (no IPv4 tail, no zone)
IPv6Valid(h) ==
    LET parts == Split(h, ":")
        n == Len(parts)
        skips == {i \in 2..(n-1) : parts[i] = <<>>}
        hextet(p) == Len(p) \in 1..4 /\ Range(p) \subseteq HexDigits
    IN  /\ Range(h) \subseteq HexDigits \cup {":"}
        /\ n >= 3
        /\ n <= 9
        /\ Cardinality(skips) <= 1
        /\ IF skips # {}
           THEN LET k == CHOOSE i \in skips : TRUE
                    hi == IF parts[1] = <<>> THEN k - 2 ELSE k - 1
                    lo == IF parts[n] = <<>> THEN n - k - 1 ELSE n - k
                IN  /\ (parts[1] = <<>> => hi = 0)
                    /\ (parts[n] = <<>> => lo = 0)
                    /\ 8 - (hi + lo) >= 1
                    /\ \A i \in 1..hi : hextet(parts[i])
                    /\ \A i \in (n - lo + 1)..n : hextet(parts[i])
           ELSE /\ n = 8
                /\ \A i \in 1..n : hextet(parts[i])

\* urlsplit's check of a netloc holding both brackets (interpreters that have
\* _check_bracketed_host): the text between the first [ and the next ] is an
\* IPvFuture or an IPv6 address, else ValueError
BracketedNetlocOk(netloc) ==
    LET ob == Find(netloc, "[")
        tail == SubSeq(netloc, ob + 1, Len(netloc))
        cb == Find(tail, "]")
        hostname == IF cb = 0 THEN tail ELSE SubSeq(tail, 1, cb - 1)
        dot == Find(hostname, ".")
    IN  IF StartsWith(hostname, <<"v">>)
        THEN /\ dot > 2
             /\ dot < Len(hostname)
             /\ \A k \in 2..(dot - 1) : hostname[k] \in HexDigits
        ELSE IPv6Valid(hostname)

\* where the netloc that starts at the head of s ends: before the first of / ? #
NetlocEnd(s) ==
    LET stops == {i \in DOMAIN s : s[i] \in {"/", "?", "#"}}
    IN  IF stops = {} THEN Len(s)
        ELSE (CHOOSE i \in stops : \A j \in stops : i <= j) - 1

\* urlsplit's scheme test: the position of the colon that ends a scheme (a letter,
\* then scheme characters), 0 when the string starts with no scheme
SchemeEnd(s) ==
    LET i == Find(s, ":")
    IN  IF /\ i > 1
           /\ s[1] \in Range(UpperLetters) \cup Range(LowerLetters)
           /\ \A k \in 1..(i-1) : s[k] \in SchemeChars
        THEN i
        ELSE 0

\* urlparse(url): [raised, error] when it raises ValueError, else [scheme, netloc]
urlparse(s, strict) ==
    LET i == Find(s, ":")
        hasScheme == SchemeEnd(s) > 0
        scheme == IF hasScheme THEN Lower(SubSeq(s, 1, i-1)) ELSE <<>>
        rest == IF hasScheme THEN SubSeq(s, i+1, Len(s)) ELSE s
        hasNetloc == Len(rest) >= 2 /\ rest[1] = "/" /\ rest[2] = "/"
        after == SubSeq(rest, 3, Len(rest))
        netloc == IF hasNetloc THEN SubSeq(after, 1, NetlocEnd(after)) ELSE <<>>
        open == "[" \in Range(netloc)
        close == "]" \in Range(netloc)
    IN  IF (open /\ ~close) \/ (close /\ ~open)
        THEN [raised |-> TRUE, error |-> <<"Invalid", "IPv6", "URL">>]
        ELSE IF open /\ close /\ strict /\ ~BracketedNetlocOk(netloc)
        THEN [raised |-> TRUE, error |-> <<"Invalid", "bracketed", "host">>]
        ELSE [raised |-> FALSE, scheme |-> scheme, netloc |-> netloc]

-----------------------------------------------------------------------------
(* validate_url (common/validation.py) *)

\* the pair (is_valid, error_message): the message as its words, and the text an
\* f-string puts into it (the rejected scheme, the parser's error) as detail
Allow == [ok |-> TRUE, reason |-> <<>>, detail |-> <<>>]
Deny(words, detail) == [ok |-> FALSE, reason |-> words, detail |-> detail]

MsgEmpty == <<"URL", "is", "empty">>
MsgNotString == <<"URL", "must", "be", "a", "string">>
MsgInvalidFormat == <<"Invalid", "URL", "format:">>
MsgNoScheme == <<"URL", "must", "include", "a", "scheme", "(http://", "or", "https://)">>
MsgBadScheme == <<"URl", "scheme", "is", "not", "allowed.", "Use", "http", "or", "https">>
MsgNoHost == <<"URL", "must", "include", "a", "host">>
MsgPrivate == <<"Access", "to", "internal/private", "addresses", "is", "not", "allowed">>

\* the host the blocklist is compared with: the lower-cased netloc, cut at its
\* first colon unless it starts with a bracket
HostOf(netloc) ==
    LET host == Lower(netloc)
    IN  IF ":" \in Range(host) /\ ~StartsWith(host, <<"[">>)
        THEN Split(host, ":")[1]
        ELSE host

\* the loop over config.blocked_hosts
IsBlocked(host) ==
    \E i \in DOMAIN blocked_hosts :
        host = blocked_hosts[i] \/ StartsWith(host, blocked_hosts[i])

\* the scheme test: parsed.scheme.lower() not in config.allowed_schemes
SchemeAllowedAny(scheme) == TRUE
SchemeAllowed(scheme) == Lower(scheme) \in allowed_schemes

\* url.strip() at the head of validate_url
StripUrlOmitted(s) == s
StripUrl(s) == Strip(s)

\* `except Exception as e`: what the parser raised becomes a denial
ParserFailurePropagates(error) == [raised |-> TRUE, ok |-> FALSE, reason |-> <<>>, detail |-> error]
ParserFailure(error) == Deny(MsgInvalidFormat, error)

validate_url(u, strict) ==
    IF ~Truthy(u) THEN Deny(MsgEmpty, <<>>)
    ELSE IF u.t # "str" THEN Deny(MsgNotString, <<>>)
    ELSE LET parsed == urlparse(StripUrl(u.s), strict)
         IN  IF parsed.raised THEN ParserFailure(parsed.error)
             ELSE IF parsed.scheme = <<>> THEN Deny(MsgNoScheme, <<>>)
             ELSE IF ~SchemeAllowed(parsed.scheme) THEN Deny(MsgBadScheme, parsed.scheme)
             ELSE IF parsed.netloc = <<>> THEN Deny(MsgNoHost, <<>>)
             ELSE IF IsBlocked(HostOf(parsed.netloc)) THEN Deny(MsgPrivate, <<>>)
             ELSE Allow

-----------------------------------------------------------------------------
(* The arguments validate_url is called with *)

\* hosts in the private and internal ranges, one or more per blocked range
PrivateHosts ==
    { <<"l","o","c","a","l","h","o","s","t">>,
      <<"l","o","c","a","l","h","o","s","t",".","e","x","a","m","p","l","e",".","c","o","m">>,
      <<"1","2","7",".","0",".","0",".","1">>,
      <<"1","0",".","0",".","0",".","1">>,
      <<"1","9","2",".","1","6","8",".","1",".","1">>,
      <<"1","7","2",".","1","6",".","0",".","1">>,
      <<"1","7","2",".","1","7",".","0",".","1">>,
      <<"1","7","2",".","1","8",".","0",".","1">>,
      <<"1","7","2",".","1","9",".","0",".","1">>,
      <<"1","7","2",".","2","0",".","0",".","1">>,
      <<"1","7","2",".","2","1",".","0",".","1">>,
      <<"1","7","2",".","2","2",".","0",".","1">>,
      <<"1","7","2",".","2","3",".","0",".","1">>,
      <<"1","7","2",".","2","4",".","0",".","1">>,
      <<"1","7","2",".","2","5",".","0",".","1">>,
      <<"1","7","2",".","2","6",".","0",".","1">>,
      <<"1","7","2",".","2","7",".","0",".","1">>,
      <<"1","7","2",".","2","8",".","0",".","1">>,
      <<"1","7","2",".","2","9",".","0",".","1">>,
      <<"1","7","2",".","3","0",".","0",".","1">>,
      <<"1","7","2",".","3","1",".","0",".","1">>,
      <<"1","6","9",".","2","5","4",".","1","6","9",".","2","5","4">>,
      <<"[",":",":","1","]">>,
      <<"[","f","e","8","0",":",":","1","]">> }

\* their spelling in capital letters
PrivateHostsAnyCase == PrivateHosts \cup {Upper(h) : h \in PrivateHosts}

\* hosts outside every blocked range
PublicHosts ==
    { <<"e","x","a","m","p","l","e",".","c","o","m">>,
      <<"1","7","2",".","3","2",".","0",".","1">>,
      <<"1",".","1","7","2",".","1","6",".","0",".","1">>,
      <<"1","1",".","0",".","0",".","1">>,
      <<"[","2","0","0","1",":","d","b","8",":",":","1","]">> }

InputSchemes == { <<"h","t","t","p">>, <<"h","t","t","p","s">>, <<"H","T","T","P">>, <<"f","i","l","e">>, <<"f","t","p">> }
InputUserinfo == { <<>>, <<"u","s","e","r">>, <<"u",":","p">> }
InputPorts == { <<>>, <<":","8","0","8","0">> }
InputPaths == { <<>>, <<"/","a">> }
RawAlphabet == {"a", "1", ":", "/", "[", "]"}

RECURSIVE Repeat(_, _)
Repeat(c, n) == IF n = 0 THEN <<>> ELSE <<c>> \o Repeat(c, n - 1)

RECURSIVE StringsUpTo(_, _)
StringsUpTo(alphabet, n) ==
    IF n = 0 THEN {<<>>}
    ELSE LET shorter == StringsUpTo(alphabet, n - 1)
         IN  shorter \cup {Append(s, c) : s \in {x \in shorter : Len(x) = n - 1}, c \in alphabet}

\* scheme://[userinfo@]host[:port][path]
BuildCore(p) ==
    p.scheme \o <<":", "/", "/">>
      \o (IF p.userinfo = <<>> THEN <<>> ELSE p.userinfo \o <<"@">>)
      \o p.host \o p.port \o p.path

\* the string an input stands for, with its surrounding whitespace
CoreOf(p) == IF p.kind = "url" THEN BuildCore(p) ELSE p.raw
BuildUrl(p) == PyStr(Repeat(" ", p.lead) \o CoreOf(p) \o Repeat("\n", p.trail))

UrlShapes ==
    [kind : {"url"}, lead : 0..MaxWs, trail : 0..MaxWs, scheme : InputSchemes,
     userinfo : InputUserinfo, host : PrivateHostsAnyCase \cup PublicHosts,
     port : InputPorts, path : InputPaths]

RawShapes ==
    [kind : {"raw"}, lead : 0..MaxWs, trail : 0..MaxWs,
     raw : StringsUpTo(RawAlphabet, MaxRawLen)]

\* arguments that are no strings: None, integers, lists
NonStringArgs == {None, PyInt(0), PyInt(7), PyList(0), PyList(2)}

-----------------------------------------------------------------------------
(* validate_max_results (common/validation.py) *)

DigitValue(c) ==
    CASE c = "0" -> 0 [] c = "1" -> 1 [] c = "2" -> 2 [] c = "3" -> 3 [] c = "4" -> 4
      [] c = "5" -> 5 [] c = "6" -> 6 [] c = "7" -> 7 [] c = "8" -> 8 [] c = "9" -> 9

\* the number a string of digits and underscores stands for
RECURSIVE DigitsValue(_)
DigitsValue(s) ==
    IF s = <<>> THEN 0
    ELSE IF s[Len(s)] = "_" THEN DigitsValue(SubSeq(s, 1, Len(s) - 1))
    ELSE 10 * DigitsValue(SubSeq(s, 1, Len(s) - 1)) + DigitValue(s[Len(s)])

Converted(n) == [ok |-> TRUE, n |-> n]
Raises(exc) == [ok |-> FALSE, exc |-> exc]

\* int(str): whitespace around, an optional sign, then digits, single underscores
\* allowed between digits; anything else is a ValueError
IntOfString(s) ==
    LET txt == Strip(s)
        signed == txt # <<>> /\ txt[1] \in {"+", "-"}
        body == IF signed THEN SubSeq(txt, 2, Len(txt)) ELSE txt
        wellFormed ==
            /\ body # <<>>
            /\ Range(body) \subseteq Digits \cup {"_"}
            /\ body[1] # "_"
            /\ body[Len(body)] # "_"
            /\ \A i \in 1..(Len(body) - 1) : ~(body[i] = "_" /\ body[i+1] = "_")
    IN  IF ~wellFormed THEN Raises("ValueError")
        ELSE IF signed /\ txt[1] = "-" THEN Converted(0 - DigitsValue(body))
        ELSE Converted(DigitsValue(body))

\* int(float): truncation towards zero; OverflowError for an infinity, ValueError
\* for a NaN
IntOfFloat(v) ==
    CASE v.kind = "finite" ->
            Converted(IF v.twice >= 0 THEN v.twice \div 2 ELSE 0 - ((0 - v.twice) \div 2))
      [] v.kind \in {"inf", "-inf"} -> Raises("OverflowError")
      [] v.kind = "nan" -> Raises("ValueError")

\* int(value)
int(v) ==
    CASE v.t = "int" -> Converted(v.n)
      [] v.t = "bool" -> Converted(IF v.b THEN 1 ELSE 0)
      [] v.t = "str" -> IntOfString(v.s)
      [] v.t = "float" -> IntOfFloat(v)
      [] OTHER -> Raises("TypeError")

\* the exceptions the try around int(value) catches
Caught == {"ValueError", "TypeError"}

Return(n) == [t |-> "return", n |-> n]
Raise(exc) == [t |-> "raise", exc |-> exc]

\* an optional argument, or the configured value when the caller passed None
OrConfig(arg, configured) == IF arg = None THEN configured ELSE arg.n

\* the clamp to [lo, hi] at the end of validate_max_results
ClampNoUpper(n, lo, hi) == IF n < lo THEN lo ELSE n
Clamp(n, lo, hi) ==
    IF n < lo THEN lo
    ELSE IF n > hi THEN hi
    ELSE n

validate_max_results(v, dflt, lo, hi, cfg) ==
    LET d == OrConfig(dflt, cfg.default_search_results)
        mn == OrConfig(lo, cfg.min_search_results)
        mx == OrConfig(hi, cfg.max_search_results)
        conv == int(v)
    IN  IF v = None THEN Return(d)
        ELSE IF ~conv.ok
             THEN IF conv.exc \in Caught THEN Return(d) ELSE Raise(conv.exc)
        ELSE Return(Clamp(conv.n, mn, mx))

-----------------------------------------------------------------------------
(* The arguments validate_max_results is called with *)

NumAlphabet == {"1", "0", "-", " ", "x"}
NumStrings ==
    StringsUpTo(NumAlphabet, MaxNumLen)
      \cup { <<"+","5">>, <<"1","_","0">>, <<"1","_","_","0">>, <<"_","1">>, <<"1",".","5">>, <<"1","0"," ">>, <<"+"," ","1">> }
IntInputs == {-5, -1, 0, 1, 2, 3, 5, 10, 20, 21, 30, 31, 50, 100}
FloatInputs == {PyFloat(k) : k \in {-5, 1, 5, 19, 59, 201}} \cup {PyInf, PyNegInf, PyNaN}

ValueInputs ==
    {None, PyBool(TRUE), PyBool(FALSE), PyList(0), PyList(2), PyDict(0), PyDict(1)}
      \cup {PyInt(n) : n \in IntInputs}
      \cup {PyStr(x) : x \in NumStrings}
      \cup FloatInputs

\* what a caller passes for default, min_val and max_val
OptionalInts == {None} \cup {PyInt(n) : n \in {0, 2, 10, 30}}

\* the configuration as shipped, or with MCP_DEFAULT_SEARCH_RESULTS and
\* MCP_MAX_SEARCH_RESULTS set in the environment
EnvInts == {0, 3}
Configs ==
    {DefaultConfig}
      \cup {[DefaultConfig EXCEPT !.default_search_results = d, !.max_search_results = m] :
                d \in EnvInts, m \in EnvInts}

-----------------------------------------------------------------------------
(* The state of a part of the program that a specification leaves alone *)

IdleUrl ==
    /\ url = None
    /\ url_parts = [kind |-> "none"]
    /\ outcome = NoCall
    /\ strict_brackets = FALSE

IdleMax ==
    /\ value = None
    /\ default = None
    /\ min_val = None
    /\ max_val = None
    /\ result = NoCall

\* a scrape_url invocation before it is entered: its arguments, its locals, what
\* it holds of Playwright, the calls it has made and what it returned
IdleScrapeTask ==
    [pc |-> "idle", requested |-> None, wait_for_js |-> None, url |-> None,
     valid |-> NoCall, playwright |-> "none", browser |-> "none", context |-> "none",
     goto |-> None, events |-> <<>>, resp |-> <<>>]

IdleScrape == scrape = IdleScrapeTask

-----------------------------------------------------------------------------
(* The search server (search_server/server.py) *)

Tasks == 1..NumTasks

\* common.server.create_error_response: one text block, "Error: " and the message
\* (its words, and the value an f-string puts into it)
TextBlock(words, arg) == [type |-> "text", text |-> words, arg |-> arg]
create_error_response(words, arg) == << TextBlock(<<"Error:">> \o words, arg) >>

MsgNoQuery == <<"No", "search", "query", "provided">>
MsgEmptyQuery == <<"Search", "query", "is", "empty">>
MsgRateLimited == <<"Rate", "limited.", "Please", "wait", "seconds", "between", "requests.">>
MsgSearchFailed == <<"Search", "failed:">>
MsgNewsFailed == <<"News", "search", "failed:">>
MsgNoResults == <<"No", "results", "found", "for:">>
MsgNoNews == <<"No", "news", "found", "for:">>
MsgWebResults == <<"##", "Web", "Search", "Results", "for:">>
MsgNewsResults == <<"##", "News", "Results", "for:">>

Tools == {"web_search", "news_search"}
\* arguments["query"]: absent or empty, no string, blank, a query
QueryInputs == {PyStr(<<>>), PyInt(7), PyStr(<<" ">>), PyStr(<<"q">>), PyStr(<<" ", "q">>)}
\* arguments["max_results"]: absent, an integer, a string, an infinite float
MaxResultsInputs == {None, PyInt(100), PyStr(<<"2", "0">>), PyInf}
\* what the DuckDuckGo call does: results, no results, an exception
BackendOutcomes == {"results", "empty", "exception"}

\* an invocation is idle (not received), pending (received, not yet run by the
\* event loop), at one of the handler's steps, or done / raised
IdleTask ==
    [pc |-> "idle", tool |-> "none", query |-> None, max_results |-> None,
     now |-> -1, before |-> -1, after |-> -1, granted |-> "none",
     backend |-> "none", resp |-> <<>>]

\* the steps of do_web_search and do_news_search after which the coroutine awaits:
\* neither handler holds an await, so the event loop runs an invocation from its
\* first statement to its return
SearchAwaits == {}

\* who holds the event loop once invocation t has moved to step pc
Holder(t, pc) ==
    IF pc \in SearchAwaits \cup {"done", "raised"} THEN 0 ELSE t

\* the comparison of _check_rate_limit: the call is inside the interval
RateLimitedInclusive(now, last, limit) == now - last <= limit
RateLimited(now, last, limit) == now - last < limit

IdleSearch ==
    /\ clock = 0
    /\ last_request_time = 0
    /\ running = 0
    /\ task = [t \in Tasks |-> IdleTask]
    /\ calls = <<>>

\* the process after start: MCP_RATE_LIMIT_SECONDS holds a positive interval, the
\* clock reads any time, no request has been received
Init ==
    /\ config \in {[DefaultConfig EXCEPT !.rate_limit_seconds = r] : r \in 1..MaxRate}
    /\ clock \in 0..MaxClock
    /\ last_request_time = 0
    /\ running = 0
    /\ task = [t \in Tasks |-> IdleTask]
    /\ calls = <<>>
    /\ IdleUrl
    /\ IdleMax
    /\ IdleScrape
    /\ validations = <<>>

\* time passes
Tick ==
    /\ clock < MaxClock
    /\ clock' = clock + 1
    /\ UNCHANGED <<config, last_request_time, running, task, calls, urlVars, maxVars, scrapeVars, validations>>

\* a tools/call request arrives (invocations are numbered as they arrive)
Receive(t) ==
    /\ task[t].pc = "idle"
    /\ IF t = 1 THEN TRUE ELSE task[t-1].pc # "idle"
    /\ task' = [task EXCEPT ![t].pc = "pending"]
    /\ UNCHANGED <<config, clock, last_request_time, running, calls, urlVars, maxVars, scrapeVars, validations>>

\* call_tool: the event loop starts running the handler the request names;
\* requests are taken up in the order they arrived
Start(t) ==
    /\ running = 0
    /\ task[t].pc = "pending"
    /\ IF t = 1 THEN TRUE ELSE task[t-1].pc # "pending"
    /\ running' = Holder(t, "query")
    /\ \E tool \in Tools : task' = [task EXCEPT ![t] = [@ EXCEPT !.pc = "query", !.tool = tool]]
    /\ UNCHANGED <<config, clock, last_request_time, calls, urlVars, maxVars, scrapeVars, validations>>

\* the handler's steps run while the invocation holds the event loop
MayStep(t, pc) == task[t].pc = pc /\ running \in {0, t}

Finish(t, resp) == [task[t] EXCEPT !.pc = "done", !.resp = resp,
                                   !.query = None, !.max_results = None]

\* "Validate query": arguments.get("query", ""); a missing, non-string or blank
\* query returns an error
ValidateQuery(t) ==
    /\ MayStep(t, "query")
    /\ \E q \in QueryInputs :
           IF ~Truthy(q) \/ q.t # "str"
           THEN /\ task' = [task EXCEPT ![t] = Finish(t, create_error_response(MsgNoQuery, <<>>))]
                /\ running' = Holder(t, "done")
           ELSE IF Strip(q.s) = <<>>
           THEN /\ task' = [task EXCEPT ![t] = Finish(t, create_error_response(MsgEmptyQuery, <<>>))]
                /\ running' = Holder(t, "done")
           ELSE /\ task' = [task EXCEPT ![t] = [@ EXCEPT !.pc = "normalize", !.query = PyStr(Strip(q.s))]]
                /\ running' = Holder(t, "normalize")
    /\ UNCHANGED <<config, clock, last_request_time, calls, urlVars, maxVars, scrapeVars, validations>>

\* "Validate max_results": validate_max_results(arguments.get("max_results"));
\* an exception it raises leaves the handler
Normalize(t) ==
    /\ MayStep(t, "normalize")
    /\ \E m \in MaxResultsInputs :
         LET r == validate_max_results(m, None, None, None, config)
         IN  IF r.t = "return"
             THEN /\ task' = [task EXCEPT ![t] = [@ EXCEPT !.pc = "rate_check", !.max_results = PyInt(r.n)]]
                  /\ running' = Holder(t, "rate_check")
             ELSE /\ task' = [task EXCEPT ![t] = [@ EXCEPT !.pc = "raised", !.query = None,
                                                           !.max_results = None]]
                  /\ running' = Holder(t, "raised")
    /\ UNCHANGED <<config, clock, last_request_time, calls, urlVars, maxVars, scrapeVars, validations>>

\* `global _last_request_time`: the one timestamp _check_rate_limit reads,
\* whichever tool calls it
StoredTimeOfTool(tool) ==
    LET own == {u \in Tasks : task[u].granted = "yes" /\ task[u].tool = tool}
    IN  IF own = {} THEN 0
        ELSE LET last == CHOOSE u \in own : \A v \in own : task[v].now <= task[u].now
             IN  task[last].now
StoredTime(tool) == last_request_time

\* `if not _check_rate_limit()`: the handler returns the "Rate limited" error
AfterDenialGoesOn(t) == [task[t] EXCEPT !.pc = "backend"]
AfterDenial(t) ==
    Finish(t, create_error_response(MsgRateLimited, <<config.rate_limit_seconds>>))

\* _check_rate_limit, up to its comparison: now = time.time(), then return False
\* inside the interval; the handler then returns the "Rate limited" error
RateCheck(t) ==
    /\ MayStep(t, "rate_check")
    /\ calls' = Append(calls, t)
    /\ IF RateLimited(clock, StoredTime(task[t].tool), config.rate_limit_seconds)
       THEN /\ task' = [task EXCEPT ![t] =
                  [AfterDenial(t)
                      EXCEPT !.now = clock, !.before = last_request_time,
                             !.after = last_request_time, !.granted = "no"]]
            /\ running' = Holder(t, "done")
       ELSE /\ task' = [task EXCEPT ![t] = [@ EXCEPT !.pc = "rate_update", !.now = clock,
                                                     !.before = last_request_time]]
            /\ running' = Holder(t, "rate_update")
    /\ UNCHANGED <<config, clock, last_request_time, urlVars, maxVars, scrapeVars, validations>>

\* _check_rate_limit, its end: _last_request_time = now; return True
RateUpdate(t) ==
    /\ MayStep(t, "rate_update")
    /\ last_request_time' = task[t].now
    /\ task' = [task EXCEPT ![t] = [@ EXCEPT !.pc = "backend", !.after = task[t].now,
                                             !.granted = "yes"]]
    /\ running' = Holder(t, "backend")
    /\ UNCHANGED <<config, clock, calls, urlVars, maxVars, scrapeVars, validations>>

\* _last_request_time after the backend call: the try block and its except
\* clause do not assign it
StoredRolledBack(t, o) == IF o = "results" THEN last_request_time ELSE task[t].before
StoredAfterBackend(t, o) == last_request_time

\* the DuckDuckGo call inside try/except, and the response made of what it gave
Backend(t) ==
    /\ MayStep(t, "backend")
    /\ \E o \in BackendOutcomes :
         LET web == task[t].tool = "web_search"
             resp == CASE o = "results" ->
                            << TextBlock(IF web THEN MsgWebResults ELSE MsgNewsResults, task[t].query.s) >>
                       [] o = "empty" ->
                            << TextBlock(IF web THEN MsgNoResults ELSE MsgNoNews, task[t].query.s) >>
                       [] o = "exception" ->
                            create_error_response(IF web THEN MsgSearchFailed ELSE MsgNewsFailed, <<>>)
         IN  /\ task' = [task EXCEPT ![t] = [Finish(t, resp) EXCEPT !.backend = o]]
             /\ last_request_time' = StoredAfterBackend(t, o)
    /\ running' = Holder(t, "done")
    /\ UNCHANGED <<config, clock, calls, urlVars, maxVars, scrapeVars, validations>>

Next ==
    \/ Tick
    \/ \E t \in Tasks : Receive(t)
    \/ \E t \in Tasks : Start(t)
    \/ \E t \in Tasks : ValidateQuery(t)
    \/ \E t \in Tasks : Normalize(t)
    \/ \E t \in Tasks : RateCheck(t)
    \/ \E t \in Tasks : RateUpdate(t)
    \/ \E t \in Tasks : Backend(t)

Spec == Init /\ [][Next]_vars

-----------------------------------------------------------------------------
(* The scraper server (scraper_server/server.py): one invocation of scrape_url *)

MsgTimedOut == <<"Page", "load", "timed", "out", "after", "seconds">>
MsgFetchFailed == <<"Failed", "to", "fetch", "URL:">>
MsgPage == <<"##", "**URL:**">>

\* arguments.get("url", ""): URLs of every kind of host, strings that are no URL,
\* values that are no string, and the default of a missing key
ScrapeShapes ==
    [kind : {"url"}, lead : 0..1, trail : 0..1, scheme : {<<"h","t","t","p">>, <<"f","i","l","e">>},
     userinfo : {<<>>, <<"u","s","e","r">>},
     host : {<<"l","o","c","a","l","h","o","s","t">>, <<"1","2","7",".","0",".","0",".","1">>,
             <<"[",":",":","1","]">>, <<"e","x","a","m","p","l","e",".","c","o","m">>},
     port : InputPorts, path : {<<>>}]
ScrapeUrlInputs ==
    {BuildUrl(p) : p \in ScrapeShapes}
        \cup {PyStr(<<>>), PyStr(<<" ">>), PyStr(<<"/", "/", "[">>), None, PyInt(7), PyList(2)}

\* arguments.get("wait_for_js", True)
WaitForJsInputs == {PyBool(TRUE), PyBool(FALSE)}

\* how an awaited Playwright call ends: it returns, or raises PlaywrightTimeout,
\* or raises another Exception
PlaywrightOutcomes == {"ok", "timeout", "exception"}

\* `if not is_valid`: the handler returns the validator's reason
RefusedNever(v) == FALSE
Refused(v) == ~v.ok

\* leaving the `async with async_playwright()` block, at its end or by an
\* exception: the Playwright driver the block started is stopped, and with it the
\* browser and the context it had opened
ReleaseOnExitOmitted(s) == s
ReleaseOnExit(s) ==
    IF s.playwright = "started"
    THEN [s EXCEPT !.playwright = "stopped",
                   !.browser = IF @ = "open" THEN "closed" ELSE @,
                   !.context = IF @ = "open" THEN "closed" ELSE @]
    ELSE s

\* the except clauses of scrape_url, reached through the end of the block
ScrapeCaught(kind) ==
    [ReleaseOnExit(scrape)
            EXCEPT !.pc = "done",
                   !.resp = IF kind = "timeout"
                            THEN create_error_response(MsgTimedOut, <<>>)
                            ELSE create_error_response(MsgFetchFailed, <<>>)]

\* an awaited call that changes nothing the model records
Await(pc, next) ==
    /\ scrape.pc = pc
    /\ \E o \in PlaywrightOutcomes :
           scrape' = IF o = "ok" THEN [scrape EXCEPT !.pc = next] ELSE ScrapeCaught(o)
    /\ UNCHANGED <<config, urlVars, maxVars, searchVars, validations>>

InitScrape ==
    /\ config = DefaultConfig
    /\ strict_brackets \in BOOLEAN
    /\ url = None
    /\ url_parts = [kind |-> "none"]
    /\ outcome = NoCall
    /\ IdleMax
    /\ IdleSearch
    /\ validations = <<>>
    /\ \E u \in ScrapeUrlInputs, w \in WaitForJsInputs :
           scrape = [IdleScrapeTask EXCEPT !.pc = "validate", !.requested = u,
                                           !.url = u, !.wait_for_js = w]

\* "Validate URL (security check)": validate_url(url), the return on a denial,
\* and url = url.strip()
ScrapeValidate ==
    /\ scrape.pc = "validate"
    /\ LET v == validate_url(scrape.url, strict_brackets)
           called == [scrape EXCEPT !.valid = v, !.events = Append(@, "validate_url")]
       IN  scrape' =
               IF Refused(v)
               THEN [called EXCEPT !.pc = "done", !.resp = create_error_response(v.reason, v.detail)]
               ELSE IF scrape.url.t # "str"
               THEN [called EXCEPT !.pc = "raised"]
               ELSE [called EXCEPT !.pc = "playwright", !.url = PyStr(Strip(scrape.url.s))]
    /\ UNCHANGED <<config, urlVars, maxVars, searchVars, validations>>

\* async with async_playwright() as p
ScrapeEnter ==
    /\ scrape.pc = "playwright"
    /\ \E o \in PlaywrightOutcomes :
           scrape' = IF o = "ok"
                     THEN [scrape EXCEPT !.pc = "launch", !.playwright = "started"]
                     ELSE ScrapeCaught(o)
    /\ UNCHANGED <<config, urlVars, maxVars, searchVars, validations>>

\* browser = await p.chromium.launch(headless=True)
ScrapeLaunch ==
    /\ scrape.pc = "launch"
    /\ \E o \in PlaywrightOutcomes :
           LET called == [scrape EXCEPT !.events = Append(@, "launch")]
           IN  scrape' = IF o = "ok"
                         THEN [called EXCEPT !.pc = "new_context", !.browser = "open"]
                         ELSE [ScrapeCaught(o) EXCEPT !.events = called.events]
    /\ UNCHANGED <<config, urlVars, maxVars, searchVars, validations>>

\* context = await browser.new_context(...)
ScrapeNewContext ==
    /\ scrape.pc = "new_context"
    /\ \E o \in PlaywrightOutcomes :
           scrape' = IF o = "ok"
                     THEN [scrape EXCEPT !.pc = "new_page", !.context = "open"]
                     ELSE ScrapeCaught(o)
    /\ UNCHANGED <<config, urlVars, maxVars, searchVars, validations>>

\* page = await context.new_page()
ScrapeNewPage == Await("new_page", "goto")

\* await page.goto(url, ...), and `if wait_for_js`
ScrapeGoto ==
    /\ scrape.pc = "goto"
    /\ \E o \in PlaywrightOutcomes :
           LET called == [scrape EXCEPT !.events = Append(@, "goto"), !.goto = scrape.url]
           IN  scrape' = IF o = "ok"
                         THEN [called EXCEPT !.pc = IF Truthy(scrape.wait_for_js)
                                                    THEN "wait_js" ELSE "content"]
                         ELSE [ScrapeCaught(o) EXCEPT !.events = called.events, !.goto = called.goto]
    /\ UNCHANGED <<config, urlVars, maxVars, searchVars, validations>>

\* await page.wait_for_timeout(1500)
ScrapeWaitJs == Await("wait_js", "content")

\* html = await page.content()
ScrapeContent == Await("content", "title")

\* title = await page.title() or "No title"
ScrapeTitle == Await("title", "close")

\* await browser.close()
ScrapeClose ==
    /\ scrape.pc = "close"
    /\ \E o \in PlaywrightOutcomes :
           scrape' = IF o = "ok"
                     THEN [scrape EXCEPT !.pc = "exit", !.browser = "closed", !.context = "closed"]
                     ELSE ScrapeCaught(o)
    /\ UNCHANGED <<config, urlVars, maxVars, searchVars, validations>>

\* the end of the `async with` block
ScrapeExit ==
    /\ scrape.pc = "exit"
    /\ \E o \in PlaywrightOutcomes :
           scrape' = IF o = "ok"
                     THEN [ReleaseOnExit(scrape) EXCEPT !.pc = "extract"]
                     ELSE ScrapeCaught(o)
    /\ UNCHANGED <<config, urlVars, maxVars, searchVars, validations>>

\* BeautifulSoup and the text extraction, inside the same try, and the return of
\* the page's text
ScrapeExtract ==
    /\ scrape.pc = "extract"
    /\ \E o \in {"ok", "exception"} :
           scrape' = IF o = "ok"
                     THEN [scrape EXCEPT !.pc = "done", !.resp = << TextBlock(MsgPage, scrape.url.s) >>]
                     ELSE ScrapeCaught(o)
    /\ UNCHANGED <<config, urlVars, maxVars, searchVars, validations>>

NextScrape ==
    \/ ScrapeValidate
    \/ ScrapeEnter
    \/ ScrapeLaunch
    \/ ScrapeNewContext
    \/ ScrapeNewPage
    \/ ScrapeGoto
    \/ ScrapeWaitJs
    \/ ScrapeContent
    \/ ScrapeTitle
    \/ ScrapeClose
    \/ ScrapeExit
    \/ ScrapeExtract

SpecScrape == InitScrape /\ [][NextScrape]_vars

-----------------------------------------------------------------------------
(* Calls of validate_url, validate_max_results and _check_rate_limit in any order *)

\* arguments the validators are called with again and again
RepeatedUrls ==
    {PyStr(<<"h","t","t","p",":","/","/","a">>), PyStr(<<"/","/","[">>), PyInt(7)}
RepeatedValues == {None, PyInt(100), PyStr(<<"x">>)}

\* the configuration after a call of validate_max_results: the function assigns
\* its parameters and a local only
ConfigStoresResult(cfg, r) ==
    IF r.t = "return" THEN [cfg EXCEPT !.default_search_results = r.n] ELSE cfg
ConfigAfterCall(cfg, r) == cfg

InitCalls ==
    /\ config = DefaultConfig
    /\ strict_brackets \in BOOLEAN
    /\ url = None
    /\ url_parts = [kind |-> "none"]
    /\ outcome = NoCall
    /\ IdleMax
    /\ IdleSearch
    /\ IdleScrape
    /\ validations = <<>>

\* validate_url(u)
CallUrlValidator ==
    /\ Len(validations) < MaxCalls
    /\ \E u \in RepeatedUrls :
         LET o == validate_url(u, strict_brackets)
         IN  /\ url' = u
             /\ url_parts' = [kind |-> "value"]
             /\ outcome' = o
             /\ validations' = Append(validations,
                    [fn |-> "validate_url", arg |-> u, out |-> o,
                     config_before |-> config, config_after |-> config,
                     time_before |-> last_request_time, time_after |-> last_request_time])
    /\ UNCHANGED <<config, strict_brackets, maxVars, searchVars, scrape>>

\* validate_max_results(v)
CallMaxValidator ==
    /\ Len(validations) < MaxCalls
    /\ \E v \in RepeatedValues :
         LET r == validate_max_results(v, None, None, None, config)
             after == ConfigAfterCall(config, r)
         IN  /\ value' = v
             /\ result' = r
             /\ config' = after
             /\ validations' = Append(validations,
                    [fn |-> "validate_max_results", arg |-> v, out |-> r,
                     config_before |-> config, config_after |-> after,
                     time_before |-> last_request_time, time_after |-> last_request_time])
    /\ UNCHANGED <<default, min_val, max_val, urlVars, searchVars, scrape>>

\* _check_rate_limit(), from its first line to its return
CallRateLimit ==
    /\ last_request_time' = IF RateLimited(clock, last_request_time, config.rate_limit_seconds)
                            THEN last_request_time ELSE clock
    /\ UNCHANGED <<config, clock, running, task, calls, urlVars, maxVars, scrapeVars, validations>>

NextCalls ==
    \/ Tick
    \/ CallRateLimit
    \/ CallUrlValidator
    \/ CallMaxValidator

SpecCalls == InitCalls /\ [][NextCalls]_vars

-----------------------------------------------------------------------------
(* One call of validate_url on an argument drawn from the inputs *)

InitValidateUrl ==
    /\ config = DefaultConfig
    /\ strict_brackets \in BOOLEAN
    /\ \/ /\ url_parts \in UrlShapes \cup RawShapes
          /\ url = BuildUrl(url_parts)
       \/ /\ url \in NonStringArgs
          /\ url_parts = [kind |-> "value"]
    /\ outcome = NoCall
    /\ IdleMax
    /\ IdleSearch
    /\ IdleScrape
    /\ validations = <<>>

CallValidateUrl ==
    /\ outcome = NoCall
    /\ outcome' = validate_url(url, strict_brackets)
    /\ UNCHANGED <<config, strict_brackets, url, url_parts, maxVars, searchVars, scrapeVars, validations>>

NextValidateUrl == CallValidateUrl

SpecValidateUrl == InitValidateUrl /\ [][NextValidateUrl]_vars

-----------------------------------------------------------------------------
(* One call of validate_max_results on arguments drawn from the inputs *)

InitMaxResults ==
    /\ config \in Configs
    /\ value \in ValueInputs
    /\ default \in OptionalInts
    /\ min_val \in OptionalInts
    /\ max_val \in OptionalInts
    /\ result = NoCall
    /\ IdleUrl
    /\ IdleSearch
    /\ IdleScrape
    /\ validations = <<>>

CallValidateMaxResults ==
    /\ result = NoCall
    /\ result' = validate_max_results(value, default, min_val, max_val, config)
    /\ UNCHANGED <<config, value, default, min_val, max_val, urlVars, searchVars, scrapeVars, validations>>

NextMaxResults == CallValidateMaxResults

SpecMaxResults == InitMaxResults /\ [][NextMaxResults]_vars

-----------------------------------------------------------------------------
(* Properties of validate_url *)

Called == outcome # NoCall
IsUrlShape == url_parts.kind = "url"
IsStringArg == url_parts.kind \in {"url", "raw"}

\* the scheme a string starts with, as written; empty when it has none
SchemeText(s) == SubSeq(s, 1, SchemeEnd(s) - 1)
HasAllowedScheme(s) == SchemeText(s) # <<>> /\ Lower(SchemeText(s)) \in allowed_schemes

MentionsScheme(words) == "scheme" \in Range(words)

\* C1: every URL with an allowed scheme whose host is in a blocked range is denied
\* as an internal/private address, in any letter case and with or without
\* userinfo, port or surrounding whitespace; a public host is allowed.
C1_PrivateHostsDenied ==
    (Called /\ IsUrlShape /\ Lower(url_parts.scheme) \in allowed_schemes) =>
        IF url_parts.host \in PrivateHostsAnyCase
        THEN outcome = Deny(MsgPrivate, <<>>)
        ELSE outcome = Allow

\* What holds of the code: the same statement for URLs that carry no userinfo.
PrivateHostsDeniedWithoutUserinfo ==
    (/\ Called /\ IsUrlShape /\ Lower(url_parts.scheme) \in allowed_schemes
     /\ url_parts.userinfo = <<>>) =>
        IF url_parts.host \in PrivateHostsAnyCase
        THEN outcome = Deny(MsgPrivate, <<>>)
        ELSE outcome = Allow

\* C9 as claimed, read for the non-empty strings (the empty string is denied as
\* "URL is empty"): every string with no scheme is denied with a reason that
\* mentions "scheme", and every string with a scheme outside allowed_schemes is
\* denied with the scheme-not-allowed reason, whatever its host.
C9_SchemeReasonAlways ==
    (Called /\ url.t = "str" /\ url.s # <<>>) =>
        LET s == Strip(url.s)
        IN  /\ (SchemeText(s) = <<>> => ~outcome.ok /\ MentionsScheme(outcome.reason))
            /\ (SchemeText(s) # <<>> /\ ~HasAllowedScheme(s) =>
                    outcome = Deny(MsgBadScheme, Lower(SchemeText(s))))

\* C9 (amended): no string whose scheme is absent or outside allowed_schemes
\* (compared case-insensitively) is allowed; when the string is non-empty and the
\* URL parser accepts it, a missing scheme is denied with a reason that mentions
\* "scheme" and another scheme with the scheme-not-allowed reason naming it,
\* whatever the host is.
C9_SchemeDenied ==
    (Called /\ url.t = "str") =>
        LET s == Strip(url.s)
            accepted == url.s # <<>> /\ ~urlparse(s, strict_brackets).raised
        IN  /\ (~HasAllowedScheme(s) => ~outcome.ok)
            /\ (accepted /\ SchemeText(s) = <<>> => MentionsScheme(outcome.reason))
            /\ (accepted /\ SchemeText(s) # <<>> /\ ~HasAllowedScheme(s) =>
                    outcome = Deny(MsgBadScheme, Lower(SchemeText(s))))

\* a file:// URL to a private host was denied for its scheme
C9_Witness ==
    /\ Called /\ IsUrlShape
    /\ url_parts.scheme = <<"f","i","l","e">>
    /\ url_parts.host = <<"l","o","c","a","l","h","o","s","t">>
    /\ outcome = Deny(MsgBadScheme, <<"f","i","l","e">>)

\* the same input with its port taken away
WithoutPort(p) == [p EXCEPT !.port = <<>>]
IsBracketed(host) == StartsWith(host, <<"[">>)

\* C10: surrounding whitespace never changes the outcome (the call on a URL with
\* whitespace around it returns what the call on the URL itself returns), and for
\* a host that is no bracketed IPv6 literal the blocklist is compared with the
\* host without its :port, so that host:port is decided as host is.
C10_WhitespaceAndPort ==
    /\ (Called /\ IsStringArg /\ CoreOf(url_parts) # <<>>) =>
           outcome = validate_url(PyStr(CoreOf(url_parts)), strict_brackets)
    /\ (Called /\ IsUrlShape /\ ~IsBracketed(url_parts.host)) =>
           /\ outcome = validate_url(BuildUrl(WithoutPort(url_parts)), strict_brackets)
           /\ HostOf(url_parts.host \o url_parts.port) = Lower(url_parts.host)

\* a public host with a port and whitespace on both sides was allowed
C10_Witness ==
    /\ Called /\ IsUrlShape
    /\ url_parts.lead > 0 /\ url_parts.trail > 0
    /\ url_parts.port # <<>>
    /\ url_parts.host = <<"e","x","a","m","p","l","e",".","c","o","m">>
    /\ outcome = Allow

\* validate_url returned a pair (is_allowed, reason), no exception left it
ReturnedPair(o) == DOMAIN o = {"ok", "reason", "detail"} /\ o.ok \in BOOLEAN

\* C11: validate_url never raises: for every argument (None, the empty string,
\* values that are no string, strings the URL parser rejects) it returns a pair
\* whose reason is empty exactly when it allows; an empty argument is denied as
\* "URL is empty", any other argument that is no string as "URL must be a
\* string", and a string the parser rejects is denied
C11_AlwaysReturnsPair ==
    Called =>
        /\ ReturnedPair(outcome)
        /\ outcome.ok <=> (outcome.reason = <<>>)
        /\ ~Truthy(url) => outcome = Deny(MsgEmpty, <<>>)
        /\ Truthy(url) /\ url.t # "str" => outcome = Deny(MsgNotString, <<>>)
        /\ (url.t = "str" /\ Truthy(url) /\ urlparse(Strip(url.s), strict_brackets).raised)
               => ~outcome.ok /\ outcome.reason = MsgInvalidFormat

\* a string the URL parser rejects came back as a denial
C11_Witness ==
    /\ Called
    /\ url.t = "str"
    /\ urlparse(Strip(url.s), strict_brackets).raised
    /\ outcome.reason = MsgInvalidFormat
    /\ ~outcome.ok

-----------------------------------------------------------------------------
(* Properties of validate_max_results *)

MaxCalled == result # NoCall
EffDefault == OrConfig(default, config.default_search_results)
EffMin == OrConfig(min_val, config.min_search_results)
EffMax == OrConfig(max_val, config.max_search_results)

\* C6 as claimed: for every value and every default, min_val and max_val in
\* effect, the integer returned lies in [min_val, max_val].
C6_AlwaysInRange ==
    (MaxCalled /\ result.t = "return") => (EffMin <= result.n /\ result.n <= EffMax)

\* C6 (amended): when the default, min_val and max_val in effect satisfy
\* min_val <= default <= max_val, every integer validate_max_results returns, for
\* every value, lies in [min_val, max_val].
C6_InRangeWhenOrdered ==
    (/\ MaxCalled /\ result.t = "return"
     /\ EffMin <= EffDefault /\ EffDefault <= EffMax) =>
        (EffMin <= result.n /\ result.n <= EffMax)

\* 50 with min_val=10, max_val=30 and a default between them came back as 30
C6_Witness ==
    /\ MaxCalled
    /\ value = PyInt(50) /\ min_val = PyInt(10) /\ max_val = PyInt(30)
    /\ EffMin <= EffDefault /\ EffDefault <= EffMax
    /\ result = Return(30)

\* C7: validate_max_results never raises: for every value it returns an integer,
\* and the default whenever the value cannot be converted to an integer.
C7_NeverRaises ==
    MaxCalled =>
        /\ result.t = "return"
        /\ (value = None \/ ~int(value).ok) => result.n = EffDefault

\* the reference function of C8
Reference ==
    IF value = None \/ ~int(value).ok THEN EffDefault
    ELSE LET n == int(value).n
         IN  IF n < EffMin THEN EffMin ELSE IF n > EffMax THEN EffMax ELSE n

\* C8: validate_max_results returns what the reference function gives: the default
\* for None and for a value that converts to no integer, else the converted
\* integer clamped to [min_val, max_val].
C8_EqualsReference == MaxCalled => result = Return(Reference)

\* What holds of the code: the same, for every value but the infinite floats.
EqualsReferenceUnlessOverflow ==
    (MaxCalled /\ ~(value.t = "float" /\ value.kind \in {"inf", "-inf"})) =>
        result = Return(Reference)

-----------------------------------------------------------------------------
(* Properties of _check_rate_limit *)

\* the calls of _check_rate_limit that have returned, in the order they were made
Returned == {i \in 1..Len(calls) : task[calls[i]].granted # "none"}
CallAt(i) == task[calls[i]]
Rate == config.rate_limit_seconds

\* the granted calls made before call i, and the last of them
GrantsBefore(i) == {g \in Returned : g < i /\ CallAt(g).granted = "yes"}
LastGrantBefore(i) == CHOOSE g \in GrantsBefore(i) : \A h \in GrantsBefore(i) : h <= g

\* calls i and j race: they are within one interval of each other and no grant
\* made before either of them lies inside that interval
Racing(i, j) ==
    /\ i < j
    /\ CallAt(j).now - CallAt(i).now < Rate
    /\ \A g \in GrantsBefore(i) : CallAt(i).now - CallAt(g).now >= Rate

\* C3: of two search invocations that reach the rate limiter within one interval
\* of each other, with no earlier grant inside that interval, exactly one is
\* granted and the other is denied
C3_ExactlyOneRacerGranted ==
    \A i, j \in Returned :
        Racing(i, j) =>
            /\ CallAt(i).granted = "yes" \/ CallAt(j).granted = "yes"
            /\ CallAt(i).granted = "no" \/ CallAt(j).granted = "no"

\* what does hold of racing calls: never two grants, and exactly one grant once
\* the process has granted a call before
RacersNeverBothGranted ==
    \A i, j \in Returned :
        Racing(i, j) => CallAt(i).granted = "no" \/ CallAt(j).granted = "no"
RacersAfterFirstGrant ==
    \A i, j \in Returned :
        Racing(i, j) /\ GrantsBefore(i) # {} =>
            CallAt(i).granted = "yes" /\ CallAt(j).granted = "no"

\* C4: the first call of _check_rate_limit after process start returns True
\* whatever the configured interval and the clock reading, and a later call made
\* at least rate_limit_seconds after the last granted call returns True and
\* stores the current time
C4_FirstAndElapsedGranted ==
    \A i \in Returned :
        /\ i = 1 => CallAt(i).granted = "yes"
        /\ GrantsBefore(i) # {} /\ CallAt(i).now - CallAt(LastGrantBefore(i)).now >= Rate
               => CallAt(i).granted = "yes" /\ CallAt(i).after = CallAt(i).now

\* the part of C4 about later calls, which holds on its own
ElapsedCallsGranted ==
    \A i \in Returned :
        GrantsBefore(i) # {} /\ CallAt(i).now - CallAt(LastGrantBefore(i)).now >= Rate
            => CallAt(i).granted = "yes" /\ CallAt(i).after = CallAt(i).now

\* the granted calls so far, and the time of the last of them
Grants == {g \in Returned : CallAt(g).granted = "yes"}
LastGrant == CHOOSE g \in Grants : \A h \in Grants : h <= g

\* C5: a call made less than rate_limit_seconds after the last granted call
\* returns False and leaves the stored timestamp as it was; hence any two granted
\* calls are at least rate_limit_seconds apart, the stored timestamp is the time
\* of the last grant however many calls were denied since, and a call made
\* rate_limit_seconds or more after the last grant is granted
C5_DeniedCallsLeaveTimestamp ==
    /\ \A i \in Returned :
           GrantsBefore(i) # {} /\ CallAt(i).now - CallAt(LastGrantBefore(i)).now < Rate
               => /\ CallAt(i).granted = "no"
                  /\ CallAt(i).after = CallAt(i).before
                  /\ CallAt(i).after = CallAt(LastGrantBefore(i)).now
    /\ \A i, j \in Grants : i < j => CallAt(j).now - CallAt(i).now >= Rate
    /\ Grants # {} /\ Returned = 1..Len(calls) => last_request_time = CallAt(LastGrant).now
    /\ \A i \in Returned :
           GrantsBefore(i) # {} /\ CallAt(i).now - CallAt(LastGrantBefore(i)).now >= Rate
               => CallAt(i).granted = "yes"

\* a grant, a denied call inside its interval, and a grant exactly one interval
\* after the first
C5_Witness ==
    /\ Rate > 0
    /\ \E i, j, k \in Returned :
           /\ i < j /\ j < k
           /\ CallAt(i).granted = "yes"
           /\ CallAt(j).granted = "no"
           /\ CallAt(j).now - CallAt(i).now < Rate
           /\ CallAt(k).granted = "yes"
           /\ CallAt(k).now - CallAt(i).now = Rate

-----------------------------------------------------------------------------
(* Properties of the search handlers *)

\* a list of text blocks, and the single "Error: ..." block of a failure
IsTextBlocks(resp) ==
    /\ Len(resp) >= 1
    /\ \A i \in DOMAIN resp : resp[i].type = "text"
IsErrorResponse(resp) ==
    /\ Len(resp) = 1
    /\ resp[1].type = "text"
    /\ Len(resp[1].text) >= 1
    /\ resp[1].text[1] = "Error:"

\* an invocation that has left its handler, and one that ended in a failure: no
\* usable query, a denial of the rate limiter, or an exception of the backend
Left(t) == task[t].pc \in {"done", "raised"}
SearchFailed(t) ==
    /\ task[t].pc = "done"
    /\ task[t].granted # "yes" \/ task[t].backend = "exception"

\* C13 for web_search and news_search: every invocation, whatever its arguments
\* and whatever the backend does, ends by returning a list of text blocks, the
\* single "Error: ..." block on a failure, and no exception leaves the handler
C13_SearchAlwaysReturnsBlocks ==
    \A t \in Tasks :
        Left(t) =>
            /\ task[t].pc = "done"
            /\ IsTextBlocks(task[t].resp)
            /\ SearchFailed(t) => IsErrorResponse(task[t].resp)

\* what holds of the search handlers: the same for every invocation that gets
\* past validate_max_results
SearchReturnsBlocksUnlessRaised ==
    \A t \in Tasks :
        task[t].pc = "done" =>
            /\ IsTextBlocks(task[t].resp)
            /\ SearchFailed(t) => IsErrorResponse(task[t].resp)
            /\ ~SearchFailed(t) => ~IsErrorResponse(task[t].resp)

\* the invocations that have called _check_rate_limit
Consulted == {calls[i] : i \in DOMAIN calls}
Normalized(m) ==
    /\ m.t = "int"
    /\ config.min_search_results <= m.n
    /\ m.n <= config.max_search_results

\* C14: in web_search and news_search the backend is called only after
\* max_results was normalized and the rate limiter consulted, and only in an
\* invocation whose _check_rate_limit returned True; a denied invocation has
\* returned the "Rate limited" error naming rate_limit_seconds and has not called
\* the backend
C14_BackendOnlyAfterGrant ==
    \A t \in Tasks :
        /\ (task[t].pc = "backend" \/ task[t].backend # "none") =>
               /\ t \in Consulted
               /\ task[t].granted = "yes"
        /\ task[t].pc \in {"rate_check", "rate_update", "backend"} =>
               Normalized(task[t].max_results)
        /\ task[t].pc \in {"query", "normalize"} => t \notin Consulted
        /\ task[t].granted = "no" =>
               /\ task[t].pc = "done"
               /\ task[t].backend = "none"
               /\ task[t].resp =
                      create_error_response(MsgRateLimited, <<config.rate_limit_seconds>>)

\* one invocation was denied and returned the error while another, granted, has
\* called the backend
C14_Witness ==
    \E t, u \in Tasks :
        /\ task[t].granted = "no"
        /\ task[t].pc = "done"
        /\ task[t].resp = create_error_response(MsgRateLimited, <<config.rate_limit_seconds>>)
        /\ task[u].granted = "yes"
        /\ task[u].backend = "results"

\* the invocations for which the search backend has been called
BackendStarted == {t \in Tasks : task[t].pc = "backend" \/ task[t].backend # "none"}

\* C16: web_search and news_search share one rate-limiter timestamp: after a
\* granted call of either tool, a call of either tool made less than
\* rate_limit_seconds later is denied, so that the backend calls of both tools
\* together are at least rate_limit_seconds apart
C16_ToolsShareLimiter ==
    /\ \A i, j \in Returned :
           (/\ i < j
            /\ CallAt(i).granted = "yes"
            /\ CallAt(j).now - CallAt(i).now < Rate) => CallAt(j).granted = "no"
    /\ \A t, u \in BackendStarted :
           t # u => \/ task[t].now - task[u].now >= Rate
                    \/ task[u].now - task[t].now >= Rate

\* a news_search call was denied inside the interval a web_search call opened
C16_Witness ==
    \E i, j \in Returned :
        /\ i < j
        /\ CallAt(i).tool = "web_search" /\ CallAt(i).granted = "yes"
        /\ CallAt(j).tool = "news_search" /\ CallAt(j).granted = "no"
        /\ CallAt(j).now - CallAt(i).now < Rate
        /\ CallAt(i).backend # "none"

\* the invocations rejected for their query: missing, no string, or blank
RejectedForQuery ==
    {t \in Tasks : /\ task[t].pc = "done"
                   /\ task[t].resp \in {create_error_response(MsgNoQuery, <<>>),
                                        create_error_response(MsgEmptyQuery, <<>>)}}
GrantedTasks == {t \in Tasks : task[t].granted = "yes"}

\* C17: the rate-limit slot is consumed exactly by the invocations that pass
\* query validation and are granted: an invocation rejected for its query has
\* returned without consulting the limiter, the stored timestamp is the time of
\* the latest granted invocation (the initial 0.0 while there is none), and it
\* stays so when the backend call of that invocation fails or finds nothing
C17_SlotConsumedByGrantsOnly ==
    /\ \A t \in RejectedForQuery :
           /\ t \notin Consulted
           /\ task[t].granted = "none"
           /\ task[t].now = IdleTask.now
    /\ \A t \in Tasks : task[t].pc \in {"query", "normalize"} => t \notin Consulted
    /\ last_request_time =
           IF GrantedTasks = {} THEN 0
           ELSE LET last == CHOOSE t \in GrantedTasks :
                                \A u \in GrantedTasks : task[u].now <= task[t].now
                IN  task[last].now
    /\ \A t \in GrantedTasks :
           /\ task[t].after = task[t].now
           /\ last_request_time >= task[t].now

\* an invocation with a blank query returned without a limiter call, and a granted
\* one whose backend call failed left its time in the stored timestamp
C17_Witness ==
    \E t, u \in Tasks :
        /\ t \in RejectedForQuery
        /\ t \notin Consulted
        /\ task[u].granted = "yes"
        /\ task[u].backend = "exception"
        /\ task[u].pc = "done"
        /\ task[u].now > 0
        /\ last_request_time = task[u].now

-----------------------------------------------------------------------------
(* Properties of scrape_url *)

ScrapeDenied == scrape.valid # NoCall /\ ~scrape.valid.ok
TouchedBrowser ==
    \/ scrape.playwright # "none"
    \/ scrape.browser # "none"
    \/ scrape.context # "none"
    \/ scrape.goto # None

\* C2: scrape_url calls validate_url on the requested URL before it launches a
\* browser or navigates; when the validator denies, the handler has returned the
\* error response with the validator's reason and has neither launched a browser
\* nor navigated; and the URL it navigates to is the requested one, stripped, on
\* which validate_url allows
C2_ValidatedBeforeBrowser ==
    /\ scrape.events # <<>> =>
           /\ scrape.events[1] = "validate_url"
           /\ scrape.valid = validate_url(scrape.requested, strict_brackets)
    /\ TouchedBrowser => scrape.valid # NoCall /\ scrape.valid.ok
    /\ ScrapeDenied =>
           /\ scrape.pc = "done"
           /\ scrape.resp = create_error_response(scrape.valid.reason, scrape.valid.detail)
           /\ scrape.events = <<"validate_url">>
           /\ ~TouchedBrowser
    /\ scrape.goto # None =>
           /\ scrape.requested.t = "str"
           /\ scrape.goto = PyStr(Strip(scrape.requested.s))
           /\ validate_url(scrape.requested, strict_brackets).ok
           /\ validate_url(scrape.goto, strict_brackets).ok

\* the handler has refused a URL of a private host
C2_Witness ==
    /\ ScrapeDenied
    /\ scrape.valid.reason = MsgPrivate
    /\ scrape.pc = "done"
    /\ scrape.resp = create_error_response(MsgPrivate, <<>>)

\* the handler has navigated to a URL the validator allowed
ScrapeNavigated ==
    /\ scrape.goto # None
    /\ scrape.events = <<"validate_url", "launch", "goto">>

-----------------------------------------------------------------------------
(* Properties of the validators among other calls *)

ScrapeReturnsBlocks ==
    /\ scrape.pc # "raised"
    /\ scrape.pc = "done" => IsTextBlocks(scrape.resp)
    /\ ScrapeDenied => IsErrorResponse(scrape.resp)
    /\ (scrape.pc = "done" /\ ~IsErrorResponse(scrape.resp)) =>
           scrape.browser = "closed" /\ scrape.playwright = "stopped"

\* the invocation has returned after it had launched a browser
ReturnedAfterLaunch == scrape.pc = "done" /\ scrape.browser # "none"

=============================================================================
